---------------------------- MODULE Spec2Model ----------------------------
(***************************************************************************)
(* Model of src/src/technical_indicators.py: the TechnicalIndicators       *)
(* object owns one pandas table (self.data) read from a CSV file; each     *)
(* calculate_* method reads price columns and assigns derived columns.     *)
(*                                                                         *)
(* Numbers.  A float64 cell is modelled as a pair <<n, d>>:                *)
(*   d > 0          the exact rational n/d in lowest terms,                *)
(*   <<0, 0>>       NaN (pandas' missing / undefined marker),              *)
(*   <<1, 0>>       +inf,      <<-1, 0>>  -inf.                            *)
(* Arithmetic follows IEEE-754 on the special values (x/0, 0/0, inf-inf,   *)
(* comparisons with NaN are false) and is exact on finite values: float    *)
(* rounding is abstracted away, except for the square root, which is       *)
(* rounded down to a multiple of 1/SqrtScale.                              *)
(***************************************************************************)
EXTENDS Integers, Sequences, FiniteSets, TLC

VARIABLES index, data, call, ncalls

vars == <<index, data, call, ncalls>>

(***************************************************************************)
(* Bounds of the model.                                                    *)
(***************************************************************************)
\* longest Close-only series
MaxLen == 3
\* largest Close value of a Close-only series
MaxClose == 3
\* longest series of independent High/Low/Close bars
MaxBars == 2
\* largest price of an independent bar
MaxPrice == 2
\* largest date of a file of the whole-object specification
MaxDate == 2
\* largest window parameter passed to an operation
MaxWin == 3
\* largest num_std passed to calculate_bollinger_bands
MaxStd == 2
\* most calls made on one object
MaxCalls == 2
\* resolution of the square root: results are multiples of 1/SqrtScale
SqrtScale == 100

(***************************************************************************)
(* float64 values and their arithmetic.                                    *)
(***************************************************************************)
Abs(n) == IF n < 0 THEN -n ELSE n

Sign(n) == IF n > 0 THEN 1 ELSE IF n < 0 THEN -1 ELSE 0

RECURSIVE GCD(_, _)
GCD(a, b) == IF b = 0 THEN a ELSE GCD(b, a % b)

\* the rational n/d (d > 0) in lowest terms
Norm(n, d) ==
    LET g == GCD(Abs(n), d)
    IN  <<n \div g, d \div g>>

R(n) == <<n, 1>>

NaN == <<0, 0>>

PInf == <<1, 0>>

NInf == <<-1, 0>>

IsNaN(a) == a = NaN

IsInf(a) == a[2] = 0 /\ a[1] # 0

IsFinite(a) == a[2] > 0

Neg(a) == <<-a[1], a[2]>>

Add(a, b) ==
    IF IsNaN(a) \/ IsNaN(b) THEN NaN
    ELSE IF IsInf(a) /\ IsInf(b) THEN (IF a = b THEN a ELSE NaN)
    ELSE IF IsInf(a) THEN a
    ELSE IF IsInf(b) THEN b
    ELSE LET g == GCD(a[2], b[2])
         IN  Norm(a[1] * (b[2] \div g) + b[1] * (a[2] \div g),
                  (a[2] \div g) * b[2])

Sub(a, b) == Add(a, Neg(b))

Mul(a, b) ==
    IF IsNaN(a) \/ IsNaN(b) THEN NaN
    ELSE IF IsInf(a) \/ IsInf(b)
         THEN (IF a[1] = 0 \/ b[1] = 0 THEN NaN
               ELSE <<Sign(a[1]) * Sign(b[1]), 0>>)
    ELSE LET g == GCD(Abs(a[1]), b[2])
             h == GCD(Abs(b[1]), a[2])
         IN  Norm((a[1] \div g) * (b[1] \div h), (a[2] \div h) * (b[2] \div g))

\* a zero divisor is +0.0 when it is a difference x - x or a mean of zeros;
\* the mean of negated zeros may be -0.0, which flips the sign of the
\* infinity: callers that can meet it do not depend on that sign
Div(a, b) ==
    IF IsNaN(a) \/ IsNaN(b) THEN NaN
    ELSE IF IsInf(b) THEN (IF IsInf(a) THEN NaN ELSE R(0))
    ELSE IF IsInf(a) THEN <<Sign(a[1]) * (IF b[1] < 0 THEN -1 ELSE 1), 0>>
    ELSE IF b[1] = 0 THEN (IF a[1] = 0 THEN NaN ELSE <<Sign(a[1]), 0>>)
    ELSE LET g == GCD(Abs(a[1]), Abs(b[1]))
             h == GCD(a[2], b[2])
         IN  Norm((a[1] \div g) * (b[2] \div h) * Sign(b[1]),
                  (a[2] \div h) * (Abs(b[1]) \div g))

\* a < b as floats compare: false when either is NaN
Lt(a, b) ==
    /\ ~IsNaN(a)
    /\ ~IsNaN(b)
    /\ IF IsInf(a) /\ IsInf(b) THEN a[1] < b[1]
       ELSE IF IsInf(a) THEN a[1] < 0
       ELSE IF IsInf(b) THEN b[1] > 0
       ELSE LET g == GCD(a[2], b[2])
            IN  a[1] * (b[2] \div g) < b[1] * (a[2] \div g)

Gt(a, b) == Lt(b, a)

Le(a, b) == ~IsNaN(a) /\ ~IsNaN(b) /\ ~Lt(b, a)

\* floor of the square root of a natural number, by bisection on lo..hi
RECURSIVE ISqrtIn(_, _, _)
ISqrtIn(n, lo, hi) ==
    IF lo >= hi THEN lo
    ELSE LET mid == (lo + hi + 1) \div 2
         IN  IF mid * mid <= n THEN ISqrtIn(n, mid, hi)
             ELSE ISqrtIn(n, lo, mid - 1)

ISqrt(n) == ISqrtIn(n, 0, IF n < 46340 THEN n ELSE 46340)

\* numpy sqrt of a non-negative finite value, rounded down to 1/SqrtScale
Sqrt(a) ==
    IF IsNaN(a) THEN NaN
    ELSE IF IsInf(a) THEN (IF a[1] > 0 THEN PInf ELSE NaN)
    ELSE IF a[1] < 0 THEN NaN
    ELSE Norm(ISqrt((a[1] * SqrtScale * SqrtScale) \div a[2]), SqrtScale)


(***************************************************************************)
(* pandas Series operations used by the indicator methods.  A Series is a  *)
(* sequence of values, one per row of the table; rows are numbered from 1  *)
(* (row t of the 0-based index is position t + 1).                         *)
(***************************************************************************)
\* Rolling._prep_values: the window kernels see inf as NaN
prep_values(xs) == [i \in 1..Len(xs) |-> IF IsInf(xs[i]) THEN NaN ELSE xs[i]]

\* roll_mean's sliding pass from row i on, nobs and sum_x carried from the
\* previous window: the row that left is removed, the new row is added
RECURSIVE roll_mean_from(_, _, _, _, _, _)
roll_mean_from(xs, window, i, nobs, sum_x, out) ==
    IF i > Len(xs) THEN out
    ELSE LET gone == IF i > window THEN xs[i - window] ELSE NaN
             nobs1 == IF IsNaN(gone) THEN nobs ELSE nobs - 1
             sum1 == IF IsNaN(gone) THEN sum_x ELSE Sub(sum_x, gone)
             nobs2 == IF IsNaN(xs[i]) THEN nobs1 ELSE nobs1 + 1
             sum2 == IF IsNaN(xs[i]) THEN sum1 ELSE Add(sum1, xs[i])
             res == IF nobs2 >= window /\ nobs2 > 0
                    THEN Div(sum2, R(nobs2)) ELSE NaN
         IN  roll_mean_from(xs, window, i + 1, nobs2, sum2, Append(out, res))

\* the kernel run with min_periods = 1: a partly filled window is averaged
RECURSIVE roll_mean_minp1_from(_, _, _, _, _, _)
roll_mean_minp1_from(xs, window, i, nobs, sum_x, out) ==
    IF i > Len(xs) THEN out
    ELSE LET gone == IF i > window THEN xs[i - window] ELSE NaN
             nobs1 == IF IsNaN(gone) THEN nobs ELSE nobs - 1
             sum1 == IF IsNaN(gone) THEN sum_x ELSE Sub(sum_x, gone)
             nobs2 == IF IsNaN(xs[i]) THEN nobs1 ELSE nobs1 + 1
             sum2 == IF IsNaN(xs[i]) THEN sum1 ELSE Add(sum1, xs[i])
             res == IF nobs2 >= 1 THEN Div(sum2, R(nobs2)) ELSE NaN
         IN  roll_mean_minp1_from(xs, window, i + 1, nobs2, sum2,
                                  Append(out, res))

rolling_mean_minp1(xs, window) ==
    roll_mean_minp1_from(prep_values(xs), window, 1, 0, R(0), <<>>)

\* Series.rolling(window=window).mean(), min_periods = window
rolling_mean(xs, window) ==
    roll_mean_from(prep_values(xs), window, 1, 0, R(0), <<>>)

\* the smallest / largest of the non-NaN values of xs[lo..hi], NaN when fewer
\* than minp of them are observations
RECURSIVE window_fold(_, _, _, _, _, _, _)
window_fold(xs, lo, hi, minp, nobs, acc, takeMin) ==
    IF lo > hi THEN (IF nobs >= minp /\ nobs > 0 THEN acc ELSE NaN)
    ELSE IF IsNaN(xs[lo])
         THEN window_fold(xs, lo + 1, hi, minp, nobs, acc, takeMin)
    ELSE LET better == IF nobs = 0 THEN TRUE
                       ELSE IF takeMin THEN Lt(xs[lo], acc)
                       ELSE Gt(xs[lo], acc)
         IN  window_fold(xs, lo + 1, hi, minp, nobs + 1,
                         IF better THEN xs[lo] ELSE acc, takeMin)

WindowStart(i, window) == IF i - window + 1 < 1 THEN 1 ELSE i - window + 1

\* Series.rolling(window=window).min()
rolling_min(xs, window) ==
    LET ys == prep_values(xs)
    IN  [i \in 1..Len(xs) |->
            window_fold(ys, WindowStart(i, window), i, window, 0, NaN, TRUE)]

\* Series.rolling(window=window).max()
rolling_max(xs, window) ==
    LET ys == prep_values(xs)
    IN  [i \in 1..Len(xs) |->
            window_fold(ys, WindowStart(i, window), i, window, 0, NaN, FALSE)]

\* roll_var's add_var: Welford's update of (nobs, mean_x, ssqdm_x)
add_var(val, st) ==
    IF IsNaN(val) THEN st
    ELSE LET nobs == st[1] + 1
             delta == Sub(val, st[2])
             mean == Add(st[2], Div(delta, R(nobs)))
         IN  <<nobs, mean, Add(st[3], Mul(Sub(val, st[2]), Sub(val, mean)))>>

\* roll_var's remove_var
remove_var(val, st) ==
    IF IsNaN(val) THEN st
    ELSE LET nobs == st[1] - 1
         IN  IF nobs = 0 THEN <<0, R(0), R(0)>>
             ELSE LET delta == Sub(val, st[2])
                      mean == Sub(st[2], Div(delta, R(nobs)))
                  IN  <<nobs, mean,
                        Sub(st[3], Mul(Sub(val, st[2]), Sub(val, mean)))>>

\* the population variance (ddof = 0): divisor nobs
calc_var_ddof0(minp, st) ==
    IF st[1] >= minp /\ st[1] > 0 THEN Div(st[3], R(st[1])) ELSE NaN

\* roll_var's calc_var with ddof = 1: NaN unless nobs >= minp and nobs > ddof
calc_var(minp, st) ==
    IF st[1] >= minp /\ st[1] > 1 THEN Div(st[3], R(st[1] - 1)) ELSE NaN

RECURSIVE roll_var_from(_, _, _, _, _)
roll_var_from(xs, window, i, st, out) ==
    IF i > Len(xs) THEN out
    ELSE LET st1 == IF i > window THEN remove_var(xs[i - window], st) ELSE st
             st2 == add_var(xs[i], st1)
         IN  roll_var_from(xs, window, i + 1, st2,
                           Append(out, calc_var(window, st2)))

\* Series.rolling(window=window).std(): zsqrt of the rolling sample variance
rolling_std(xs, window) ==
    LET v == roll_var_from(prep_values(xs), window, 1, <<0, R(0), R(0)>>, <<>>)
    IN  [i \in 1..Len(xs) |-> Sqrt(v[i])]

\* pandas' ewm kernel with adjust=False, ignore_na=False, minp = 1, from row
\* i on: weighted is the running average, old_wt the weight it carries
RECURSIVE ewm_from(_, _, _, _, _, _)
ewm_from(xs, alpha, i, weighted, old_wt, out) ==
    IF i > Len(xs) THEN out
    ELSE LET cur == xs[i]
             is_obs == ~IsNaN(cur)
             wt1 == Mul(old_wt, Sub(R(1), alpha))
             avg == IF weighted # cur
                    THEN Div(Add(Mul(wt1, weighted), Mul(alpha, cur)),
                             Add(wt1, alpha))
                    ELSE weighted
             weighted2 == IF ~IsNaN(weighted)
                          THEN (IF is_obs THEN avg ELSE weighted)
                          ELSE cur
             old_wt2 == IF ~IsNaN(weighted)
                        THEN (IF is_obs THEN R(1) ELSE wt1)
                        ELSE old_wt
         IN  ewm_from(xs, alpha, i + 1, weighted2, old_wt2,
                      Append(out, weighted2))

\* the span taken for the centre of mass: alpha = 1 / (span + 1)
ewm_mean_com(xs, span) ==
    IF Len(xs) = 0 THEN <<>>
    ELSE ewm_from(xs, Div(R(1), R(span + 1)), 2, xs[1], R(1), <<xs[1]>>)

\* Series.ewm(span=span, adjust=False).mean(): alpha = 2 / (span + 1)
ewm_mean(xs, span) ==
    IF Len(xs) = 0 THEN <<>>
    ELSE ewm_from(xs, Div(R(2), R(span + 1)), 2, xs[1], R(1), <<xs[1]>>)

\* Series.diff(): the first row has no predecessor
diff(xs) ==
    [i \in 1..Len(xs) |-> IF i = 1 THEN NaN ELSE Sub(xs[i], xs[i - 1])]

\* delta.where(delta > 0, 0): rows where the condition is false, a NaN
\* delta included, become 0
where_gt0(xs) == [i \in 1..Len(xs) |-> IF Gt(xs[i], R(0)) THEN xs[i] ELSE R(0)]

\* delta.where(delta < 0, 0)
where_lt0(xs) == [i \in 1..Len(xs) |-> IF Lt(xs[i], R(0)) THEN xs[i] ELSE R(0)]

series_neg(xs) == [i \in 1..Len(xs) |-> Neg(xs[i])]

series_sub(xs, ys) == [i \in 1..Len(xs) |-> Sub(xs[i], ys[i])]

series_add(xs, ys) == [i \in 1..Len(xs) |-> Add(xs[i], ys[i])]

series_div(xs, ys) == [i \in 1..Len(xs) |-> Div(xs[i], ys[i])]

\* scalar * series
series_scale(k, xs) == [i \in 1..Len(xs) |-> Mul(k, xs[i])]

(***************************************************************************)
(* The table self.data: a function from column names to Series.  The Date  *)
(* column of the file is the index and is no value column.                 *)
(***************************************************************************)
PriceColumns == {"Open", "High", "Low", "Close", "Volume"}

\* f"SMA_{window}"
SMAName(window) == "SMA_" \o ToString(window)

\* f"EMA_{window}"
EMAName(window) == "EMA_" \o ToString(window)

\* pd.read_csv(file_path, index_col="Date", parse_dates=True): the rows of
\* the file in file order, turned into one Series per column of the header;
\* nothing is sorted, de-duplicated or rejected
read_csv(file) ==
    [index |-> [i \in 1..Len(file.rows) |-> file.rows[i].Date],
     data |-> [c \in file.header |->
                  [i \in 1..Len(file.rows) |-> file.rows[i][c]]]]

\* self.data[name] = values: adds the column, or replaces it when it exists
setitem(tbl, name, values) ==
    [c \in DOMAIN tbl \cup {name} |-> IF c = name THEN values ELSE tbl[c]]

\* a method that returned normally, leaving the table tbl
Returned(tbl) == [data |-> tbl, kind |-> "ok", column |-> ""]

\* self.data[column] on a table without that column: KeyError(column) leaves
\* the method with the table as it is at that point
RaisedKeyError(tbl, column) ==
    [data |-> tbl, kind |-> "KeyError", column |-> column]

\* the mean taken over the smoothed series EMA_window when an earlier call
\* has left one in the table, and over Close otherwise
calculate_sma_of_ema(tbl, window) ==
    IF "Close" \notin DOMAIN tbl THEN RaisedKeyError(tbl, "Close")
    ELSE LET source == IF EMAName(window) \in DOMAIN tbl
                       THEN tbl[EMAName(window)] ELSE tbl["Close"]
         IN  Returned(setitem(tbl, SMAName(window),
                              rolling_mean(source, window)))

calculate_sma(tbl, window) ==
    IF "Close" \notin DOMAIN tbl THEN RaisedKeyError(tbl, "Close")
    ELSE Returned(setitem(tbl, SMAName(window),
                          rolling_mean(tbl["Close"], window)))

calculate_ema(tbl, window) ==
    IF "Close" \notin DOMAIN tbl THEN RaisedKeyError(tbl, "Close")
    ELSE Returned(setitem(tbl, EMAName(window), ewm_mean(tbl["Close"], window)))

\* rs = gain / loss; 100 - (100 / (1 + rs))
rsi_of(gain, loss) ==
    [i \in 1..Len(gain) |->
        Sub(R(100), Div(R(100), Add(R(1), Div(gain[i], loss[i]))))]

\* the differences written back over Close before the averages are taken
calculate_rsi_inplace(tbl, window) ==
    IF "Close" \notin DOMAIN tbl THEN RaisedKeyError(tbl, "Close")
    ELSE LET delta == diff(tbl["Close"])
             gain == rolling_mean(where_gt0(delta), window)
             loss == rolling_mean(series_neg(where_lt0(delta)), window)
         IN  Returned(setitem(setitem(tbl, "Close", delta), "RSI",
                              rsi_of(gain, loss)))

calculate_rsi(tbl, window) ==
    IF "Close" \notin DOMAIN tbl THEN RaisedKeyError(tbl, "Close")
    ELSE LET delta == diff(tbl["Close"])
             gain == rolling_mean(where_gt0(delta), window)
             loss == rolling_mean(series_neg(where_lt0(delta)), window)
         IN  Returned(setitem(tbl, "RSI", rsi_of(gain, loss)))

\* low_min stored in the table as soon as it is computed, before High and
\* Close are read
calculate_stochastic_oscillator_eager(tbl, k_window, d_window) ==
    IF "Low" \notin DOMAIN tbl THEN RaisedKeyError(tbl, "Low")
    ELSE LET low_min == rolling_min(tbl["Low"], k_window)
             tbl0 == setitem(tbl, "%K", low_min)
         IN  IF "High" \notin DOMAIN tbl THEN RaisedKeyError(tbl0, "High")
             ELSE IF "Close" \notin DOMAIN tbl THEN RaisedKeyError(tbl0, "Close")
             ELSE LET high_max == rolling_max(tbl["High"], k_window)
                      pctK == series_scale(R(100),
                                 series_div(series_sub(tbl["Close"], low_min),
                                            series_sub(high_max, low_min)))
                      tbl1 == setitem(tbl, "%K", pctK)
                  IN  Returned(setitem(tbl1, "%D",
                                       rolling_mean(tbl1["%K"], d_window)))

calculate_stochastic_oscillator(tbl, k_window, d_window) ==
    IF "Low" \notin DOMAIN tbl THEN RaisedKeyError(tbl, "Low")
    ELSE IF "High" \notin DOMAIN tbl THEN RaisedKeyError(tbl, "High")
    ELSE IF "Close" \notin DOMAIN tbl THEN RaisedKeyError(tbl, "Close")
    ELSE LET low_min == rolling_min(tbl["Low"], k_window)
             high_max == rolling_max(tbl["High"], k_window)
             pctK == series_scale(R(100),
                        series_div(series_sub(tbl["Close"], low_min),
                                   series_sub(high_max, low_min)))
             tbl1 == setitem(tbl, "%K", pctK)
         IN  Returned(setitem(tbl1, "%D", rolling_mean(tbl1["%K"], d_window)))

\* the signal line smoothed from Close instead of from the MACD column
calculate_macd_signal_of_close(tbl, short_window, long_window, signal_window) ==
    IF "Close" \notin DOMAIN tbl THEN RaisedKeyError(tbl, "Close")
    ELSE LET short_ema == ewm_mean(tbl["Close"], short_window)
             long_ema == ewm_mean(tbl["Close"], long_window)
             tbl1 == setitem(tbl, "MACD", series_sub(short_ema, long_ema))
         IN  Returned(setitem(tbl1, "MACD_Signal",
                              ewm_mean(tbl1["Close"], signal_window)))

calculate_macd(tbl, short_window, long_window, signal_window) ==
    IF "Close" \notin DOMAIN tbl THEN RaisedKeyError(tbl, "Close")
    ELSE LET short_ema == ewm_mean(tbl["Close"], short_window)
             long_ema == ewm_mean(tbl["Close"], long_window)
             tbl1 == setitem(tbl, "MACD", series_sub(short_ema, long_ema))
         IN  Returned(setitem(tbl1, "MACD_Signal",
                              ewm_mean(tbl1["MACD"], signal_window)))

calculate_bollinger_bands(tbl, window, num_std) ==
    IF "Close" \notin DOMAIN tbl THEN RaisedKeyError(tbl, "Close")
    ELSE LET sma == rolling_mean(tbl["Close"], window)
             std_dev == rolling_std(tbl["Close"], window)
             band == series_scale(R(num_std), std_dev)
             tbl1 == setitem(tbl, "Bollinger_Upper", series_add(sma, band))
         IN  Returned(setitem(tbl1, "Bollinger_Lower", series_sub(sma, band)))

(***************************************************************************)
(* Input files.  A file is a header (its value columns) and rows in file   *)
(* order; each row gives a Date and a value per column.                    *)
(***************************************************************************)
Row(date, open, high, low, close) ==
    [Date |-> date, Open |-> open, High |-> high, Low |-> low,
     Close |-> close, Volume |-> R(0)]

SeqsUpTo(S, n) == UNION {[1..k -> S] : k \in 0..n}

\* Close series with gaps; every bar is flat (Open = High = Low = Close) and
\* the dates ascend
CloseVals == {NaN} \cup {R(p) : p \in 0..MaxClose}

CloseFiles ==
    {[header |-> PriceColumns,
      rows |-> [i \in 1..Len(cs) |-> Row(i, cs[i], cs[i], cs[i], cs[i])]] :
        cs \in SeqsUpTo(CloseVals, MaxLen)}

\* bars whose High, Low and Close are chosen independently, gaps included
BarVals == {NaN} \cup {R(p) : p \in 1..MaxPrice}

BarFiles ==
    {[header |-> PriceColumns,
      rows |-> [i \in 1..Len(bs) |->
                   Row(i, bs[i][3], bs[i][1], bs[i][2], bs[i][3])]] :
        bs \in SeqsUpTo(BarVals \X BarVals \X BarVals, MaxBars)}

\* files as the object may be given them: any subset of Close, High, Low
\* missing from the header, dates in any order, no rows at all
DatedBars ==
    {Row(d, R(c), R(h), R(l), R(c)) :
        d \in 1..MaxDate,
        l \in 1..MaxPrice, h \in 1..MaxPrice, c \in 1..MaxPrice} 

ObjectFiles ==
    {[header |-> PriceColumns \ missing, rows |-> rs] :
        missing \in SUBSET {"Close", "High", "Low"},
        rs \in SeqsUpTo({r \in DatedBars :
                            /\ Le(r.Low, r.High)
                            /\ r.Close \in {r.Low, r.High}}, MaxBars)}

(***************************************************************************)
(* The object: Init is the state __init__ leaves, one action per method.   *)
(***************************************************************************)
\* __init__: self.data is what read_csv returns
Constructed(files) ==
    \E file \in files :
        /\ index = read_csv(file).index
        /\ data = read_csv(file).data
        /\ call = [op |-> "__init__", args |-> <<>>, kind |-> "ok", column |-> ""]
        /\ ncalls = 0

\* one call of a method with outcome res
Invoke(op, args, res) ==
    /\ ncalls < MaxCalls
    /\ data' = res.data
    /\ call' = [op |-> op, args |-> args, kind |-> res.kind,
                column |-> res.column]
    /\ ncalls' = ncalls + 1
    /\ UNCHANGED index

Windows == 1..MaxWin

CallSMA ==
    \E w \in Windows : Invoke("calculate_sma", <<w>>, calculate_sma(data, w))

CallEMA ==
    \E w \in Windows : Invoke("calculate_ema", <<w>>, calculate_ema(data, w))

CallRSI ==
    \E w \in Windows : Invoke("calculate_rsi", <<w>>, calculate_rsi(data, w))

CallStochastic ==
    \E k \in Windows, d \in Windows :
        Invoke("calculate_stochastic_oscillator", <<k, d>>,
               calculate_stochastic_oscillator(data, k, d))

CallMACD ==
    \E s \in Windows, l \in Windows, g \in Windows :
        Invoke("calculate_macd", <<s, l, g>>, calculate_macd(data, s, l, g))

CallBollinger ==
    \E w \in Windows, k \in 1..MaxStd :
        Invoke("calculate_bollinger_bands", <<w, k>>,
               calculate_bollinger_bands(data, w, k))

Init == Constructed(ObjectFiles)

Next ==
    \/ CallSMA
    \/ CallEMA
    \/ CallRSI
    \/ CallStochastic
    \/ CallMACD
    \/ CallBollinger

\* the object on any file it can be given, any methods in any order
Spec == Init /\ [][Next]_vars

\* one method on Close series with gaps.  SMA_w and EMA_w accumulate, one
\* column per window, so calculate_sma and calculate_ema are called
\* repeatedly; the other methods overwrite their columns, so one call on
\* every table covers every outcome
InitClose == Constructed(CloseFiles)

SpecSMA == InitClose /\ [][CallSMA]_vars

SpecEMA == InitClose /\ [][CallEMA]_vars

SpecRSI == InitClose /\ [][ncalls = 0 /\ CallRSI]_vars

SpecMACD == InitClose /\ [][ncalls = 0 /\ CallMACD]_vars

SpecBollinger == InitClose /\ [][ncalls = 0 /\ CallBollinger]_vars

\* the stochastic oscillator on independent High, Low and Close
InitBars == Constructed(BarFiles)

SpecStochastic == InitBars /\ [][ncalls = 0 /\ CallStochastic]_vars

(***************************************************************************)
(* The script of the module (__main__): one object, the six methods called *)
(* once each with fixed arguments.  The script calls them in the order of  *)
(* MainOps; the specification lets them be called in any order.            *)
(***************************************************************************)
\* complete files with ascending dates; a bar <<High, Low, Close>> falls to
\* a low of 1 and closes at its high, so the range of a bar varies with its
\* close and the bar of close 1 is flat
MainBars == {<<c, 1, c>> : c \in 1..MaxPrice}

MainFiles ==
    {[header |-> PriceColumns,
      rows |-> [i \in 1..Len(bs) |->
                   Row(i, R(bs[i][3]), R(bs[i][1]), R(bs[i][2]), R(bs[i][3]))]] :
        bs \in SeqsUpTo(MainBars, MaxLen)}

\* the methods in the order the script calls them
MainOps ==
    <<"calculate_sma", "calculate_ema", "calculate_rsi",
      "calculate_stochastic_oscillator", "calculate_macd",
      "calculate_bollinger_bands">>

\* the arguments of each call, the same in every run: the defaults of the
\* methods scaled to the length of the series (SMA, EMA and the bands share
\* a window; short < long for the MACD)
MainArgs(op) ==
    CASE op = "calculate_sma" -> <<2>>
      [] op = "calculate_ema" -> <<2>>
      [] op = "calculate_rsi" -> <<1>>
      [] op = "calculate_stochastic_oscillator" -> <<2, 2>>
      [] op = "calculate_macd" -> <<1, 2, 2>>
      [] op = "calculate_bollinger_bands" -> <<2, 2>>

\* the call of method op on table tbl with the script's arguments
main_call(tbl, op) ==
    LET a == MainArgs(op)
    IN  CASE op = "calculate_sma" -> calculate_sma(tbl, a[1])
          [] op = "calculate_ema" -> calculate_ema(tbl, a[1])
          [] op = "calculate_rsi" -> calculate_rsi(tbl, a[1])
          [] op = "calculate_stochastic_oscillator" ->
                calculate_stochastic_oscillator(tbl, a[1], a[2])
          [] op = "calculate_macd" -> calculate_macd(tbl, a[1], a[2], a[3])
          [] op = "calculate_bollinger_bands" ->
                calculate_bollinger_bands(tbl, a[1], a[2])

\* the columns a call of op with the script's arguments assigns
MainColumns(op) ==
    CASE op = "calculate_sma" -> {SMAName(MainArgs(op)[1])}
      [] op = "calculate_ema" -> {EMAName(MainArgs(op)[1])}
      [] op = "calculate_rsi" -> {"RSI"}
      [] op = "calculate_stochastic_oscillator" -> {"%K", "%D"}
      [] op = "calculate_macd" -> {"MACD", "MACD_Signal"}
      [] op = "calculate_bollinger_bands" ->
            {"Bollinger_Upper", "Bollinger_Lower"}

\* method op is called, and it has not been called before: on a complete
\* file a call always returns, so it has been called exactly when the table
\* holds its columns
MainStep(op) ==
    /\ MainColumns(op) \cap DOMAIN data = {}
    /\ data' = main_call(data, op).data
    /\ call' = [op |-> op, args |-> MainArgs(op),
                kind |-> main_call(data, op).kind,
                column |-> main_call(data, op).column]
    /\ ncalls' = ncalls + 1
    /\ UNCHANGED index

MainSMA == MainStep("calculate_sma")

MainEMA == MainStep("calculate_ema")

MainRSI == MainStep("calculate_rsi")

MainStochastic == MainStep("calculate_stochastic_oscillator")

MainMACD == MainStep("calculate_macd")

MainBollinger == MainStep("calculate_bollinger_bands")

InitMain == Constructed(MainFiles)

NextMain ==
    \/ MainSMA
    \/ MainEMA
    \/ MainRSI
    \/ MainStochastic
    \/ MainMACD
    \/ MainBollinger

SpecMain == InitMain /\ [][NextMain]_vars

(***************************************************************************)
(* Vocabulary of the properties: textbook definitions, written directly    *)
(* from the row windows and independent of the kernels above.              *)
(***************************************************************************)
Rows == 1..Len(index)

LastCall(op) == call.op = op /\ call.kind = "ok"

Populated(xs) == \A i \in 1..Len(xs) : IsFinite(xs[i])

PopulatedOn(xs, lo, hi) == lo >= 1 /\ \A i \in lo..hi : IsFinite(xs[i])

AbsV(a) == IF a[1] < 0 THEN Neg(a) ELSE a

RECURSIVE SumOn(_, _, _)
SumOn(xs, lo, hi) == IF lo > hi THEN R(0) ELSE Add(xs[hi], SumOn(xs, lo, hi - 1))

\* arithmetic mean of xs[lo..hi]
MeanOn(xs, lo, hi) == Div(SumOn(xs, lo, hi), R(hi - lo + 1))

RECURSIVE SumSqDevOn(_, _, _, _)
SumSqDevOn(xs, lo, hi, m) ==
    IF lo > hi THEN R(0)
    ELSE Add(Mul(Sub(xs[hi], m), Sub(xs[hi], m)), SumSqDevOn(xs, lo, hi - 1, m))

\* sample variance (divisor n - 1) of xs[lo..hi]
SampleVarOn(xs, lo, hi) ==
    Div(SumSqDevOn(xs, lo, hi, MeanOn(xs, lo, hi)), R(hi - lo))

\* smoothing factor of a span
Alpha(w) == Div(R(2), R(w + 1))

\* one step of the exponential recurrence
Smooth(a, x, prev) == Add(Mul(a, x), Mul(Sub(R(1), a), prev))

RECURSIVE EmaAt(_, _, _)
EmaAt(xs, a, t) == IF t = 1 THEN xs[1] ELSE Smooth(a, xs[t], EmaAt(xs, a, t - 1))

Between(x, p, q) == (Le(p, x) /\ Le(x, q)) \/ (Le(q, x) /\ Le(x, p))

StrictlyIncreasing(ds) == \A i \in 1..Len(ds) - 1 : ds[i] < ds[i + 1]

DerivedColumns == DOMAIN data \ PriceColumns

(***************************************************************************)
(* C1.  After calculate_sma(w), for every w >= 1 and every Close series,   *)
(* gaps included: SMA_w has one entry per input row (no row is dropped);   *)
(* its entry at 0-based row t is the undefined marker when t < w - 1 or    *)
(* when any of Close[t-w+1..t] is missing, and otherwise it is exactly the *)
(* arithmetic mean of Close[t-w+1..t].                                     *)
(***************************************************************************)
C1_SMA ==
    \A w \in Windows :
        SMAName(w) \in DOMAIN data =>
            LET col == data[SMAName(w)]
                close == data["Close"]
            IN  /\ Len(col) = Len(close)
                /\ Len(col) = Len(index)
                /\ \A i \in Rows :
                      IF i < w \/ ~PopulatedOn(close, i - w + 1, i)
                      THEN col[i] = NaN
                      ELSE col[i] = MeanOn(close, i - w + 1, i)

\* an SMA over a window of 2 or more rows holding a mean of distinct closes,
\* an undefined row before the window fills and one for a gap after it
C1_Witness ==
    \E w \in Windows \ {1} :
        /\ SMAName(w) \in DOMAIN data
        /\ \E i, j \in Rows :
              /\ i >= w
              /\ IsFinite(data[SMAName(w)][i])
              /\ data["Close"][i] # data["Close"][i - 1]
              /\ j > i
              /\ IsNaN(data[SMAName(w)][j])
        /\ IsNaN(data[SMAName(w)][1])

(***************************************************************************)
(* C2.  After calculate_ema(w) on a fully populated Close series, for      *)
(* every w >= 1: EMA_w is defined at every row, EMA_w[0] = Close[0], and   *)
(* for t > 0 EMA_w[t] = a*Close[t] + (1-a)*EMA_w[t-1] with a = 2/(w+1),    *)
(* so EMA_w[t] lies between Close[t] and EMA_w[t-1], inclusive.            *)
(***************************************************************************)
C2_EMA ==
    \A w \in Windows :
        (EMAName(w) \in DOMAIN data /\ Populated(data["Close"])) =>
            LET col == data[EMAName(w)]
                close == data["Close"]
            IN  /\ Len(col) = Len(close)
                /\ Populated(col)
                /\ \A i \in Rows :
                      IF i = 1 THEN col[i] = close[i]
                      ELSE /\ col[i] = Smooth(Alpha(w), close[i], col[i - 1])
                           /\ Between(col[i], close[i], col[i - 1])

\* an EMA with a < 1 over three or more populated rows that moves strictly
\* between the close and the previous average
C2_Witness ==
    \E w \in Windows \ {1} :
        /\ EMAName(w) \in DOMAIN data
        /\ Populated(data["Close"])
        /\ Len(index) >= 3
        /\ \E i \in Rows \ {1} :
              /\ data[EMAName(w)][i] # data["Close"][i]
              /\ data[EMAName(w)][i] # data[EMAName(w)][i - 1]

NoLossOn(close, lo, hi) == \A j \in lo..hi : Le(close[j - 1], close[j])

(***************************************************************************)
(* C3.  After calculate_rsi(w), at every row whose window of w differences *)
(* is full and has no loss (every difference in it is >= 0), RSI = 100;    *)
(* a flat series (all differences zero) is included and gives 100, not the *)
(* undefined marker and not infinity.                                      *)
(***************************************************************************)
C3_ZeroLossIs100 ==
    LastCall("calculate_rsi") =>
        LET w == call.args[1]
            close == data["Close"]
        IN  \A i \in Rows :
                (i > w /\ PopulatedOn(close, i - w, i)
                       /\ NoLossOn(close, i - w + 1, i))
                    => data["RSI"][i] = R(100)

(***************************************************************************)
(* C9.  After calculate_rsi(w), RSI is the undefined marker at every       *)
(* 0-based row t < w, and at every row whose trailing w differences are    *)
(* not all differences of two present closes: the first row's difference   *)
(* and a difference next to a gap count as missing, never as zero.         *)
(***************************************************************************)
C9_RSIWarmUp ==
    LastCall("calculate_rsi") =>
        LET w == call.args[1]
            close == data["Close"]
        IN  \A i \in Rows :
                (i <= w \/ ~PopulatedOn(close, i - w, i))
                    => IsNaN(data["RSI"][i])

MaxOn(xs, lo, hi) ==
    CHOOSE m \in {xs[j] : j \in lo..hi} : \A j \in lo..hi : Le(xs[j], m)

MinOn(xs, lo, hi) ==
    CHOOSE m \in {xs[j] : j \in lo..hi} : \A j \in lo..hi : Le(m, xs[j])

(***************************************************************************)
(* C4.  After calculate_stochastic_oscillator(k, d), at every 0-based row  *)
(* t >= k-1 with a populated window: if max(High) > min(Low) over the      *)
(* window then %K = 100*(Close - minLow)/(maxHigh - minLow) and            *)
(* 0 <= %K <= 100; if max(High) = min(Low) then %K is the undefined        *)
(* marker, never infinity, whatever Close is.                              *)
(***************************************************************************)
C4_PercentK ==
    LastCall("calculate_stochastic_oscillator") =>
        LET k == call.args[1]
            pctK == data["%K"]
        IN  \A i \in Rows :
                (/\ i >= k
                 /\ PopulatedOn(data["High"], i - k + 1, i)
                 /\ PopulatedOn(data["Low"], i - k + 1, i)
                 /\ IsFinite(data["Close"][i]))
                    => LET maxHigh == MaxOn(data["High"], i - k + 1, i)
                           minLow == MinOn(data["Low"], i - k + 1, i)
                       IN  /\ Gt(maxHigh, minLow) =>
                                /\ pctK[i] =
                                     Mul(R(100),
                                         Div(Sub(data["Close"][i], minLow),
                                             Sub(maxHigh, minLow)))
                                /\ Le(R(0), pctK[i])
                                /\ Le(pctK[i], R(100))
                           /\ maxHigh = minLow => IsNaN(pctK[i])

ConstantFrom(xs, k) == \A i \in k..Len(xs) : xs[i] = xs[k]

(***************************************************************************)
(* C5.  After calculate_macd(short, long, signal) on a fully populated     *)
(* Close series: MACD[t] = EMA(Close, short)[t] - EMA(Close, long)[t] at   *)
(* every row; MACD_Signal is the same recurrence run over the MACD column  *)
(* (MACD_Signal[0] = MACD[0], MACD_Signal[t] = a*MACD[t] +                 *)
(* (1-a)*MACD_Signal[t-1], a = 2/(signal+1)), not over Close; so when MACD *)
(* is a constant c from some row on, |MACD_Signal[t] - c| never increases  *)
(* and shrinks by the factor (1-a) at each later row, and when MACD is     *)
(* constant from row 0, MACD_Signal = c at every row.                      *)
(***************************************************************************)
C5_MACD ==
    (LastCall("calculate_macd") /\ Populated(data["Close"])) =>
        LET close == data["Close"]
            macd == data["MACD"]
            sig == data["MACD_Signal"]
            a == Alpha(call.args[3])
        IN  /\ Len(macd) = Len(close)
            /\ Len(sig) = Len(close)
            /\ \A i \in Rows :
                  macd[i] = Sub(EmaAt(close, Alpha(call.args[1]), i),
                                EmaAt(close, Alpha(call.args[2]), i))
            /\ \A i \in Rows :
                  sig[i] = IF i = 1 THEN macd[1]
                           ELSE Smooth(a, macd[i], sig[i - 1])
            /\ \A k \in Rows :
                  ConstantFrom(macd, k) =>
                      \A i \in (k + 1)..Len(macd) :
                          /\ AbsV(Sub(sig[i], macd[k])) =
                               Mul(Sub(R(1), a), AbsV(Sub(sig[i - 1], macd[k])))
                          /\ Le(AbsV(Sub(sig[i], macd[k])),
                                AbsV(Sub(sig[i - 1], macd[k])))
            /\ (Len(macd) > 0 /\ ConstantFrom(macd, 1)) =>
                  \A i \in Rows : sig[i] = macd[1]

\* a MACD column that differs from Close, is constant from a row after the
\* first on but not before it, with a signal line still strictly
\* approaching that constant two rows later
C5_Witness ==
    /\ LastCall("calculate_macd")
    /\ Populated(data["Close"])
    /\ call.args[3] > 1
    /\ \E k \in Rows \ {1} :
          /\ ConstantFrom(data["MACD"], k)
          /\ data["MACD"][k - 1] # data["MACD"][k]
          /\ k + 1 \in Rows
          /\ data["MACD_Signal"][k + 1] # data["MACD"][k]
          /\ data["MACD_Signal"][k + 1] # data["MACD_Signal"][k]

(***************************************************************************)
(* C6.  After calculate_bollinger_bands(w, k), at every 0-based row        *)
(* t >= w-1 with a fully populated window, both bands are defined,         *)
(* Bollinger_Upper = center + k*s and Bollinger_Lower = center - k*s with  *)
(* center the mean and s the sample standard deviation (divisor w-1) of    *)
(* Close[t-w+1..t], so Upper >= center >= Lower with equality exactly when *)
(* all closes of the window are equal.  s is the square root to the        *)
(* model's resolution: s >= 0 is a multiple of 1/SqrtScale with            *)
(* s^2 <= variance < (s + 1/SqrtScale)^2.                                  *)
(***************************************************************************)
AllEqualOn(xs, lo, hi) == \A j \in lo..hi : xs[j] = xs[lo]

IsSqrtOf(s, v) ==
    /\ Le(R(0), s)
    /\ Le(Mul(s, s), v)
    /\ Lt(v, Mul(Add(s, Div(R(1), R(SqrtScale))), Add(s, Div(R(1), R(SqrtScale)))))
    /\ Mul(s, R(SqrtScale))[2] = 1

\* the bands of row i are center +- k*s for the window's mean and sample
\* standard deviation
BandsAt(i, w, k) ==
    LET close == data["Close"]
        upper == data["Bollinger_Upper"][i]
        lower == data["Bollinger_Lower"][i]
        center == MeanOn(close, i - w + 1, i)
        s == Div(Sub(upper, lower), R(2 * k))
    IN  /\ IsFinite(upper)
        /\ IsFinite(lower)
        /\ IsSqrtOf(s, SampleVarOn(close, i - w + 1, i))
        /\ upper = Add(center, Mul(R(k), s))
        /\ lower = Sub(center, Mul(R(k), s))
        /\ Le(lower, center)
        /\ Le(center, upper)
        /\ (upper = center) = AllEqualOn(close, i - w + 1, i)
        /\ (lower = center) = AllEqualOn(close, i - w + 1, i)

\* C6 as stated: for every window w >= 1, w = 1 included
C6_BollingerAnyWindow ==
    LastCall("calculate_bollinger_bands") =>
        LET w == call.args[1]
        IN  \A i \in Rows :
                (i >= w /\ PopulatedOn(data["Close"], i - w + 1, i))
                    => BandsAt(i, w, call.args[2])

\* C6 as amended: the statement holds for every window w >= 2; for w = 1
\* the sample standard deviation of the single close does not exist and
\* both bands are the undefined marker at every row
C6_Bollinger ==
    LastCall("calculate_bollinger_bands") =>
        LET w == call.args[1]
        IN  /\ Len(data["Bollinger_Upper"]) = Len(index)
            /\ Len(data["Bollinger_Lower"]) = Len(index)
            /\ \A i \in Rows :
                  IF w = 1
                  THEN /\ IsNaN(data["Bollinger_Upper"][i])
                       /\ IsNaN(data["Bollinger_Lower"][i])
                  ELSE (i >= w /\ PopulatedOn(data["Close"], i - w + 1, i))
                           => BandsAt(i, w, call.args[2])

\* bands with the default multiplier over a window of 2 or more rows: one
\* row where they are apart and a later row where the window is flat and
\* they meet the center
C6_Witness ==
    /\ LastCall("calculate_bollinger_bands")
    /\ call.args[1] >= 2
    /\ call.args[2] = 2
    /\ \E i, j \in Rows :
          /\ i < j
          /\ IsFinite(data["Bollinger_Upper"][i])
          /\ Lt(data["Bollinger_Lower"][i], data["Bollinger_Upper"][i])
          /\ IsFinite(data["Bollinger_Upper"][j])
          /\ data["Bollinger_Lower"][j] = data["Bollinger_Upper"][j]

(***************************************************************************)
(* C7.  A call of an indicator method on a table that lacks Close (or, for *)
(* calculate_stochastic_oscillator, lacks High or Low) ends in an error    *)
(* that names a missing column, and the table after the failed call has    *)
(* exactly the columns and values it had before: no derived column of the  *)
(* method is partially appended.                                           *)
(***************************************************************************)
RequiredColumns(op) ==
    IF op = "calculate_stochastic_oscillator" THEN {"Low", "High", "Close"}
    ELSE {"Close"}

\* a step that is a call of a method some required column of which is absent
CallLacksColumn ==
    /\ ncalls' = ncalls + 1
    /\ ~(RequiredColumns(call'.op) \subseteq DOMAIN data)

C8_ChronologicalOnly ==
    DerivedColumns # {} => StrictlyIncreasing(index)

(***************************************************************************)
(* C10.  Over every sequence of indicator calls with any parameters, the   *)
(* same method called more than once included: the set of columns only     *)
(* grows; the input columns, the row order and the row count never change; *)
(* and the values of a derived column, once written, are never changed by  *)
(* a later call.                                                           *)
(***************************************************************************)
\* the columns whose names do not carry the parameters of the call
ColumnsOf(op) ==
    CASE op = "calculate_rsi" -> {"RSI"}
      [] op = "calculate_stochastic_oscillator" -> {"%K", "%D"}
      [] op = "calculate_macd" -> {"MACD", "MACD_Signal"}
      [] op = "calculate_bollinger_bands" -> {"Bollinger_Upper", "Bollinger_Lower"}
      [] OTHER -> {}

\* C10 as stated
C10_NeverRewritten ==
    [][/\ index' = index
       /\ \A c \in DOMAIN data : c \in DOMAIN data' /\ data'[c] = data[c]]_vars

\* C10 as amended: a later call changes the values of a derived column only
\* when it is a call of the method that owns the column and the column is
\* one of RSI, %K, %D, MACD, MACD_Signal, Bollinger_Upper, Bollinger_Lower;
\* SMA_w, EMA_w and the input columns never change
C10_AppendOnly ==
    [][/\ index' = index
       /\ \A c \in DOMAIN data' : Len(data'[c]) = Len(index)
       /\ \A c \in DOMAIN data :
             /\ c \in DOMAIN data'
             /\ data'[c] # data[c] => c \in ColumnsOf(call'.op)]_vars

\* two calls on a table of two or more rows: an RSI with a computed value
\* written by the first, Bollinger bands by the second
C10_Witness ==
    /\ ncalls >= 2
    /\ LastCall("calculate_bollinger_bands")
    /\ "RSI" \in DOMAIN data
    /\ \E i \in Rows : i >= 2 /\ IsFinite(data["RSI"][i])

(***************************************************************************)
(* C11.  The six methods, each called once with fixed arguments, commute.  *)
(* Every call, whatever calls came before it: leaves the input columns and *)
(* the columns of the other methods as they are; adds exactly its own      *)
(* columns; and gives them the values the same call gives on the table of  *)
(* the input columns alone, so it has read no column another method wrote  *)
(* and each derived column is what its method alone produces on the        *)
(* original table.  Hence once all six have been called, in any order, the *)
(* table is the one the calls leave when made in the order of the script.  *)
(***************************************************************************)
\* the input columns of a table
InputTable(tbl) == [c \in DOMAIN tbl \cap PriceColumns |-> tbl[c]]

\* the columns a call belongs to: SMA_w or EMA_w for its window w, or the
\* columns whose names carry no parameter
OwnColumns(op, args) ==
    CASE op = "calculate_sma" -> {SMAName(args[1])}
      [] op = "calculate_ema" -> {EMAName(args[1])}
      [] OTHER -> ColumnsOf(op)

\* the table left by the first n calls of the script made on tbl
RECURSIVE InScriptOrder(_, _)
InScriptOrder(tbl, n) ==
    IF n = 0 THEN tbl
    ELSE main_call(InScriptOrder(tbl, n - 1), MainOps[n]).data

AllCalled(tbl) ==
    \A n \in 1..Len(MainOps) :
        OwnColumns(MainOps[n], MainArgs(MainOps[n])) \subseteq DOMAIN tbl

C11_Commute ==
    [][LET own == OwnColumns(call'.op, call'.args)
           alone == main_call(InputTable(data), call'.op).data
       IN  /\ call'.kind = "ok"
           /\ index' = index
           /\ DOMAIN data' = DOMAIN data \cup own
           /\ \A c \in DOMAIN data \ own : data'[c] = data[c]
           /\ \A c \in own : data'[c] = alone[c]
           /\ InputTable(data') = InputTable(data)
           /\ AllCalled(data') =>
                 data' = InScriptOrder(InputTable(data), Len(MainOps))]_vars

\* all six methods called on three or more rows in an order that is not the
\* script's (calculate_sma last, after calculate_ema had left EMA_2 in the
\* table), with computed values in the last row of every derived column and
\* an SMA that differs from the EMA
C11_Witness ==
    /\ AllCalled(data)
    /\ ncalls = Len(MainOps)
    /\ LastCall("calculate_sma")
    /\ Len(index) >= 3
    /\ \A c \in DerivedColumns : IsFinite(data[c][Len(index)])
    /\ data[SMAName(2)] # data[EMAName(2)]

=============================================================================
